---------------------------- MODULE Spec2Model ----------------------------
(***************************************************************************)
(* The retrying, paginating fetchers of the annual-review scripts:         *)
(*   scripts/fetch_confluence.py     confluence_get, fetch_pages           *)
(*   scripts/fetch_sprint_totals.py  jira_get, jira_post,                  *)
(*                                   fetch_sprint_total                    *)
(*   scripts/pr_utils.py             gh, discover_repos,                   *)
(*                                   search_pr_numbers, fetch_pr,          *)
(*                                   fetch_prs_for_numbers                 *)
(* One attempt of a request is one step; the caller's loop body, run on    *)
(* the value a request call returned, is another.                          *)
(***************************************************************************)
EXTENDS Integers, Sequences, FiniteSets, TLC

(***************************************************************************)
(* Program constants.                                                      *)
(***************************************************************************)
\* fetch_sprint_totals.py
_MAX_RETRIES == 5
_RATE_LIMIT_WAIT == 60
_BACKOFF_BASE == 5
\* fetch_confluence.py
_MAX_RETRIES_confluence == 5
_RATE_LIMIT_WAIT_confluence == 60
_BACKOFF_BASE_confluence == 5
_PAGE_LIMIT == 50
\* body[:500] in the messages of the HTTP functions
DETAIL_LIMIT == 500
\* pr_utils.py
_MAX_RETRIES_gh == 5
_SECONDARY_RATE_WAIT == 60
\* per_page=100 of the search requests, and the test len(items) < 100
PER_PAGE == 100

(***************************************************************************)
(* Bounds of the model.                                                    *)
(***************************************************************************)
\* full pages the Confluence server holds before its short page
MaxFullPages == 3
\* pages the JIRA search holds for one sprint
MaxTokenPages == 3
\* issues on one page of the JIRA search
MaxIssues == 1
\* full pages the GitHub search holds before its short page
MaxGhFullPages == 1
\* pairs handed to fetch_prs_for_numbers
MaxPrs == 3
\* page sizes tried in place of _PAGE_LIMIT
MaxPageSize == 3
\* records the Confluence server holds when the page size varies
MaxRecords == 4

\* sizes of the last, short page of the Confluence search
ShortSizes == {0, 1, _PAGE_LIMIT - 1}
\* values of a Retry-After header, in seconds
RetryAfterValues == {5}
\* sizes of the last, short page of the GitHub search
GhShortSizes == {0, 1, PER_PAGE - 1}
\* reset_ts - int(time.time()) of the rate limit query, in seconds
ResetDeltas == {0 - 3, 30}

(***************************************************************************)
(* Python values.                                                          *)
(***************************************************************************)
\* the dict {} (and any mapping without keys)
EmptyDict == <<>>

\* d.get(k, default)
Get(d, k, default) == IF k \in DOMAIN d THEN d[k] ELSE default

\* 2 ** n
RECURSIVE Pow2(_)
Pow2(n) == IF n = 0 THEN 1 ELSE 2 * Pow2(n - 1)

\* the ids a, a+1, ..., b as a list
Range(a, b) == [i \in 1..(IF b >= a THEN b - a + 1 ELSE 0) |-> a + i - 1]

Min(a, b) == IF a <= b THEN a ELSE b

(***************************************************************************)
(* The HTTP functions and what the server may answer to one attempt.       *)
(***************************************************************************)
HttpFns == {"confluence_get", "jira_get", "jira_post"}

\* urlopen returns (ok), raises HTTPError (http, with its status code and
\* headers) or raises URLError (url: no HTTP response at all).
\* bodyLen is the length of the body read from an HTTPError: a short JSON
\* error, or the long error page of a 5xx.
Responses ==
    {[kind |-> "ok", code |-> 200, retryAfter |-> {}, bodyLen |-> 0]}
    \cup {[kind |-> "http", code |-> c, retryAfter |-> {}, bodyLen |-> 20] :
             c \in {401, 403, 410, 429}}
    \cup {[kind |-> "http", code |-> 500, retryAfter |-> {}, bodyLen |-> DETAIL_LIMIT + 100]}
    \cup {[kind |-> "http", code |-> 429, retryAfter |-> {v}, bodyLen |-> 20] :
             v \in RetryAfterValues}
    \cup {[kind |-> "url", code |-> 0, retryAfter |-> {}, bodyLen |-> 0]}

\* mutant: the loop runs one iteration more
MaxRetries_oneMore(f) == _MAX_RETRIES + 1

MaxRetries(f) == IF f = "confluence_get" THEN _MAX_RETRIES_confluence ELSE _MAX_RETRIES

\* int(exc.headers.get("Retry-After", _RATE_LIMIT_WAIT))
RateLimitWait(f, r) ==
    IF r.retryAfter = {}
    THEN (IF f = "confluence_get" THEN _RATE_LIMIT_WAIT_confluence ELSE _RATE_LIMIT_WAIT)
    ELSE CHOOSE v \in r.retryAfter : TRUE

\* mutant: the exponent counts the attempts from 0
Backoff_fromZero(f, a) == _BACKOFF_BASE * Pow2(a - 1)

\* mutant: a linear instead of an exponential wait
Backoff_linear(f, a) == _BACKOFF_BASE * (a + 1)

\* _BACKOFF_BASE * (2 ** attempt)
Backoff(f, a) ==
    (IF f = "confluence_get" THEN _BACKOFF_BASE_confluence ELSE _BACKOFF_BASE) * Pow2(a)

\* mutant: 403 is not handled as fatal
FatalCodes_no403(f) == IF f = "confluence_get" THEN {401} ELSE {401, 410}

\* mutant: 410 is handled as fatal nowhere
FatalCodes_no410(f) == {401, 403}

\* the status codes a function raises on at once
FatalCodes(f) == IF f = "confluence_get" THEN {401, 403} ELSE {401, 403, 410}

\* mutant: a successful response does not leave the loop
HandleResponse_okContinues(f, a, r) ==
    IF r.kind = "ok" THEN [next |-> "continue", slept |-> {}]
    ELSE IF r.kind = "http" THEN
        IF r.code \in FatalCodes(f) THEN [next |-> "raise", slept |-> {}]
        ELSE IF r.code = 429
            THEN [next |-> "continue", slept |-> {RateLimitWait(f, r)}]
        ELSE IF a = MaxRetries(f) THEN [next |-> "raise", slept |-> {}]
        ELSE [next |-> "continue", slept |-> {Backoff(f, a)}]
    ELSE IF a = MaxRetries(f) THEN [next |-> "raise", slept |-> {}]
    ELSE [next |-> "continue", slept |-> {Backoff(f, a)}]

\* One iteration of "for attempt in range(1, _MAX_RETRIES + 1)": what the
\* body does with the response r of attempt a.  next is "return" (the parsed
\* body is returned), "raise" (RuntimeError) or "continue" (the iteration
\* ends and the loop goes on); slept holds the time.sleep argument, if any.
HandleResponse(f, a, r) ==
    IF r.kind = "ok" THEN [next |-> "return", slept |-> {}]
    ELSE IF r.kind = "http" THEN
        IF r.code \in FatalCodes(f) THEN [next |-> "raise", slept |-> {}]
        ELSE IF r.code = 429
            THEN [next |-> "continue", slept |-> {RateLimitWait(f, r)}]
        ELSE IF a = MaxRetries(f) THEN [next |-> "raise", slept |-> {}]
        ELSE [next |-> "continue", slept |-> {Backoff(f, a)}]
    ELSE IF a = MaxRetries(f) THEN [next |-> "raise", slept |-> {}]
    ELSE [next |-> "continue", slept |-> {Backoff(f, a)}]

\* body[:500], of a body known by its length
Truncate(n) == Min(n, DETAIL_LIMIT)

\* The RuntimeError a function raises on response r to request rq: its text
\* names an HTTP status, a URL, a truncated body, a network error reason, or
\* none of them ({} where the text does not hold the item).
ErrorOf(f, rq, r) ==
    IF r.kind = "url"
    THEN [msg |-> "Network error after retries", status |-> {}, url |-> {},
          detail |-> {}, reason |-> {"reason"}]
    ELSE IF r.code = 401
    THEN [msg |-> "Authentication failed", status |-> {}, url |-> {},
          detail |-> {}, reason |-> {}]
    ELSE IF r.code = 403
    THEN [msg |-> "Forbidden", status |-> {}, url |-> {}, detail |-> {}, reason |-> {}]
    ELSE IF r.code = 410 /\ f # "confluence_get"
    THEN [msg |-> "HTTP 410 Gone", status |-> {410}, url |-> {rq},
          detail |-> {Truncate(r.bodyLen)}, reason |-> {}]
    ELSE [msg |-> "API error after retries", status |-> {r.code}, url |-> {rq},
          detail |-> {Truncate(r.bodyLen)}, reason |-> {}]

(***************************************************************************)
(* The logical fetches built on the HTTP functions.                        *)
(***************************************************************************)
Progs == {"fetch_pages", "fetch_sprint_total", "jira_get"}

\* with the probe request of resolve_sp_fields: all that call an HTTP function
HttpProgs == Progs \cup {"probe"}

\* the HTTP function a logical fetch calls
FnOf(p) ==
    CASE p = "fetch_pages" -> "confluence_get"
      [] p = "fetch_sprint_total" -> "jira_post"
      [] p = "probe" -> "jira_post"
      [] OTHER -> "jira_get"

VARIABLES
    prog,            \* the operation that runs
    srvN,            \* records the Confluence search holds for the query
    srvPages,        \* issue counts of the pages the JIRA search holds
    pc,              \* "calling" | "returned" | "raised": the operation
    start,           \* fetch_pages: start
    pages,           \* fetch_pages: pages
    limit,           \* fetch_pages: the page size sent as limit (_PAGE_LIMIT)
    total_tickets,   \* fetch_sprint_total: total_tickets
    total_sp,        \* fetch_sprint_total: total_sp
    null_sp_count,   \* fetch_sprint_total: null_sp_count
    next_page_token, \* fetch_sprint_total: next_page_token ({} is None)
    sp_fields,       \* fetch_sprint_total: sp_fields
    calls,           \* the requests of the calls made so far, in order
    req,             \* the request of the current call
    attempt,         \* the current call: attempt
    hist,            \* the current call: its attempts so far
    callState,       \* the current call: "running" | "returned" | "raised"
    callData,        \* the current call: the value it returned
    callError,       \* the current call: the RuntimeError it raised
    ghItems,         \* items the GitHub search holds for the query
    org,             \* discover_repos: org ({} is None)
    numbers,         \* fetch_prs_for_numbers: numbers
    page,            \* discover_repos, search_pr_numbers: page
    repos,           \* discover_repos: repos
    ghResults,       \* search_pr_numbers, fetch_prs_for_numbers: results
    idx,             \* fetch_prs_for_numbers: i of enumerate(numbers, 1)
    ret,             \* the value a GitHub fetch returned
    query_repo,      \* search_pr_numbers: the repo: qualifier of query ({} is none)
    script,          \* the script whose main() runs
    mainPc,          \* main: the statement it is at
    force,           \* main: args.force
    authorGiven,     \* main: --author was passed
    existed,         \* output_path.exists() when the script started
    output,          \* the output file: "absent" | "old" | "new"
    input,           \* fetch_sprint_totals: sprints of the input CSV ({} is no file)
    candidates,      \* resolve_sp_fields: candidates
    main_repos,      \* fetch_prs, fetch_reviewed_prs: repos
    main_i,          \* main: position in the loop over sprints or repos
    csv_in,          \* dedup_csv_headers: the rows csv.reader yields
    headers,         \* dedup_csv_headers: headers
    seen,            \* dedup_csv_headers: seen
    deduped,         \* dedup_csv_headers: deduped
    written          \* dedup_csv_headers: the rows given to writer.writerow

srvVars == <<srvN, srvPages>>
pagesVars == <<start, pages, limit>>
sprintVars == <<total_tickets, total_sp, null_sp_count, next_page_token, sp_fields>>
callVars == <<req, attempt, hist, callState, callData, callError>>
ghVars == <<ghItems, org, numbers, page, repos, ghResults, idx, ret>>
mainVars == <<query_repo, script, mainPc, force, authorGiven, existed, output, input,
              candidates, main_repos, main_i>>
dedupVars == <<csv_in, headers, seen, deduped, written>>
vars == <<prog, srvVars, pc, pagesVars, sprintVars, calls, callVars, ghVars, mainVars,
          dedupVars>>

fn == FnOf(prog)

(***************************************************************************)
(* What the servers hold and answer.                                       *)
(***************************************************************************)
\* The Confluence search holds the records 1..srvN of the query and answers
\* a request (start, limit) with the records start+1 .. min(start+limit, N).
ConfluenceBody(rq) == [results |-> Range(rq.start + 1, Min(rq.start + rq.limit, srvN))]

RECURSIVE SumTo(_, _)
\* s[1] + ... + s[n]
SumTo(s, n) == IF n = 0 THEN 0 ELSE s[n] + SumTo(s, n - 1)

\* The JIRA search holds Len(srvPages) pages; page j has srvPages[j] issues,
\* numbered on from the pages before it, and carries the token j+1 of the
\* next page unless it is the last.  A request without token asks for page 1.
JiraBody(rq) ==
    LET j == IF rq.token = {} THEN 1 ELSE CHOOSE t \in rq.token : TRUE
        first == SumTo(srvPages, j - 1) + 1
        issues == Range(first, first + srvPages[j] - 1)
    IN IF j < Len(srvPages)
       THEN [issues |-> issues, nextPageToken |-> j + 1]
       ELSE [issues |-> issues]

\* the field registry of GET /rest/api/3/field
FieldRegistry ==
    << [id |-> "customfield_10016", name |-> "Story point estimate"],
       [id |-> "customfield_10028", name |-> "Story Points"],
       [id |-> "summary", name |-> "Summary"] >>

\* the body of the probe of resolve_sp_fields: maxResults = 5 tickets of the
\* first page of the sprint
ProbeBody == [issues |-> Range(1, Min(5, IF srvPages = <<>> THEN 0 ELSE srvPages[1]))]

\* the body of a successful response to request rq of program p
ServerBody(p, rq) ==
    CASE p = "fetch_pages" -> ConfluenceBody(rq)
      [] p = "fetch_sprint_total" -> JiraBody(rq)
      [] p = "probe" -> ProbeBody
      [] OTHER -> FieldRegistry

\* sp_fields, the story-point fields tried per ticket, in order
SpFields == <<"customfield_10016", "customfield_10028">>

\* the lists handed to fetch_sprint_total as sp_fields
SpFieldLists == {SpFields, <<SpFields[2], SpFields[1]>>}

\* issue.get("fields", {}) of issue i: a field holds no value ({}) or one.
\* Of four issues in a row, the first has a value in the first field only,
\* the second in both (0 in the first), the third in none, the fourth in the
\* second only.
IssueFields(i) ==
    [f \in {"customfield_10016", "customfield_10028"} |->
        IF f = "customfield_10016"
        THEN (IF i % 4 = 1 THEN {i} ELSE IF i % 4 = 2 THEN {0} ELSE {})
        ELSE (IF i % 4 = 2 THEN {i} ELSE IF i % 4 = 0 THEN {2 * i} ELSE {})]

ServerSizes == {n * _PAGE_LIMIT + k : n \in 0..MaxFullPages, k \in ShortSizes}

\* The JIRA searches: up to MaxTokenPages pages; the last two pages hold any
\* number of issues (none included), the pages before them MaxIssues each.
TokenServers ==
    {s \in UNION {[1..m -> 0..MaxIssues] : m \in 1..MaxTokenPages} :
        \A j \in 1..(Len(s) - 2) : s[j] = MaxIssues}

(***************************************************************************)
(* fetch_pages: the loop body after confluence_get returned.               *)
(***************************************************************************)
\* the dict appended to pages for the search result r
PageOf(r) == [id |-> r]

\* mutant: the page's records are put in front of the list
AppendPages_inFront(ps, results) == [i \in 1..Len(results) |-> PageOf(results[i])] \o ps

\* pages after the "for r in results" loop
AppendPages(ps, results) == ps \o [i \in 1..Len(results) |-> PageOf(results[i])]

\* mutant: the offset counts the pages, not the records
NextStart_pageCount(s, fetched) == s + 1

\* mutant: the offset skips one record per page
NextStart_plusOne(s, fetched) == s + fetched + 1

\* start += fetched
NextStart(s, fetched) == s + fetched

\* mutant: the loop is left after a full page too
LastPage_fullToo(fetched) == fetched <= limit

\* if fetched < _PAGE_LIMIT: break
LastPage(fetched) == fetched < limit

(***************************************************************************)
(* fetch_sprint_total: the loop body after jira_post returned.             *)
(***************************************************************************)
RECURSIVE FirstSp_truthy(_, _, _)
\* mutant: a field counts when its value is truthy, so 0 is passed over
FirstSp_truthy(fields, fs, i) ==
    IF i > Len(fs) THEN {}
    ELSE IF Get(fields, fs[i], {}) \notin {{}, {0}} THEN fields[fs[i]]
    ELSE FirstSp_truthy(fields, fs, i + 1)

RECURSIVE FirstSp(_, _, _)
\* next((fields[f] for f in sp_fields if fields.get(f) is not None), None)
FirstSp(fields, fs, i) ==
    IF i > Len(fs) THEN {}
    ELSE IF Get(fields, fs[i], {}) # {} THEN fields[fs[i]]
    ELSE FirstSp(fields, fs, i + 1)

RECURSIVE SumSp(_, _)
\* what the "for issue in issues" loop adds to total_sp
SumSp(issues, n) ==
    IF n = 0 THEN 0
    ELSE LET sp == FirstSp(IssueFields(issues[n]), sp_fields, 1)
         IN SumSp(issues, n - 1) + (IF sp = {} THEN 0 ELSE CHOOSE v \in sp : TRUE)

\* what the "for issue in issues" loop adds to null_sp_count
NullSp(issues) ==
    Cardinality({n \in 1..Len(issues) : FirstSp(IssueFields(issues[n]), sp_fields, 1) = {}})

\* mutant: the continuation token of the response is dropped
TokenOf_dropped(data) == {}

\* data.get("nextPageToken")
TokenOf(data) == IF "nextPageToken" \in DOMAIN data THEN {data.nextPageToken} ELSE {}

\* mutant: a page without issues does not end the loop
SprintDone_tokenOnly(issues, token) == token = {}

\* if not issues or not next_page_token: break
SprintDone(issues, token) == issues = <<>> \/ token = {}

(***************************************************************************)
(* The state machine.                                                      *)
(***************************************************************************)
\* dedup_csv_headers does not run
DedupIdle ==
    /\ csv_in = <<>>
    /\ headers = <<>>
    /\ seen = <<>>
    /\ deduped = <<>>
    /\ written = <<>>

\* no script runs: a fetch is called on its own
MainIdle ==
    /\ query_repo = {}
    /\ script = "none"
    /\ mainPc = "none"
    /\ force = FALSE
    /\ authorGiven = FALSE
    /\ existed = FALSE
    /\ output = "absent"
    /\ input = {}
    /\ candidates = <<>>
    /\ main_repos = <<>>
    /\ main_i = 0

\* the variables of the GitHub fetches, which the Atlassian fetches leave alone
GhIdle ==
    /\ ghItems = 0
    /\ org = {}
    /\ numbers = <<>>
    /\ page = 1
    /\ repos = {}
    /\ ghResults = <<>>
    /\ idx = 1
    /\ ret = <<>>

Init ==
    /\ prog \in Progs
    /\ srvN \in (IF prog = "fetch_pages" THEN ServerSizes ELSE {0})
    /\ srvPages \in (IF prog = "fetch_sprint_total" THEN TokenServers ELSE {<<>>})
    /\ pc = "loop"
    /\ start = 0
    /\ pages = <<>>
    /\ limit = _PAGE_LIMIT
    /\ total_tickets = 0
    /\ total_sp = 0
    /\ null_sp_count = 0
    /\ next_page_token = {}
    /\ sp_fields \in (IF prog = "fetch_sprint_total" THEN SpFieldLists ELSE {<<>>})
    /\ calls = <<>>
    /\ req = EmptyDict
    /\ attempt = 1
    /\ hist = <<>>
    /\ callState = "idle"
    /\ callData = EmptyDict
    /\ callError = EmptyDict
    /\ GhIdle
    /\ MainIdle
    /\ DedupIdle

\* mutant: the attempt counter is kept from one call to the next
Call_sharedBudget(rq) ==
    /\ pc' = "calling"
    /\ req' = rq
    /\ calls' = Append(calls, rq)
    /\ attempt' = attempt
    /\ hist' = <<>>
    /\ callState' = "running"
    /\ callData' = EmptyDict
    /\ callError' = EmptyDict

\* Entering confluence_get / jira_get / jira_post with request rq: the
\* request is built once, before the retry loop.
Call(rq) ==
    /\ pc' = "calling"
    /\ req' = rq
    /\ calls' = Append(calls, rq)
    /\ attempt' = 1
    /\ hist' = <<>>
    /\ callState' = "running"
    /\ callData' = EmptyDict
    /\ callError' = EmptyDict

\* fetch_pages: params of the next page request, confluence_get is called
FetchPagesRequest ==
    /\ prog = "fetch_pages"
    /\ pc = "loop"
    /\ Call([start |-> start, limit |-> limit])
    /\ UNCHANGED <<dedupVars, mainVars, ghVars, prog, srvVars, pagesVars, sprintVars>>

\* fetch_sprint_total: body of the next page request, jira_post is called
SprintRequest ==
    /\ prog = "fetch_sprint_total"
    /\ pc = "loop"
    /\ Call([token |-> next_page_token])
    /\ UNCHANGED <<dedupVars, mainVars, ghVars, prog, srvVars, pagesVars, sprintVars>>

\* jira_get(f"{base_url}/rest/api/3/field", auth_header, {})
JiraGetRequest ==
    /\ prog = "jira_get"
    /\ pc = "loop"
    /\ Call([url |-> "/rest/api/3/field"])
    /\ UNCHANGED <<dedupVars, mainVars, ghVars, prog, srvVars, pagesVars, sprintVars>>

\* what the server may answer: any response, and inside a run of main() a
\* 429 comes without Retry-After header
Answers == IF script = "none" THEN Responses ELSE {r \in Responses : r.retryAfter = {}}

\* One iteration of the retry loop of confluence_get / jira_get / jira_post:
\* the request is sent, the server answers, the answer is handled.  When the
\* last iteration ends without return or raise, the loop is left and the
\* function returns {}.
HttpAttempt ==
    /\ prog \in HttpProgs
    /\ pc = "calling"
    /\ callState = "running"
    /\ \E r \in Answers :
         LET h == HandleResponse(fn, attempt, r)
             exhausted == h.next = "continue" /\ attempt = MaxRetries(fn)
         IN /\ hist' = Append(hist, [attempt |-> attempt, req |-> req,
                                     resp |-> r, slept |-> h.slept])
            /\ callState' = CASE h.next = "return" -> "returned"
                              [] h.next = "raise" -> "raised"
                              [] exhausted -> "returned"
                              [] OTHER -> "running"
            /\ callData' = IF h.next = "return" THEN ServerBody(prog, req) ELSE EmptyDict
            /\ callError' = IF h.next = "raise" THEN ErrorOf(fn, req, r) ELSE EmptyDict
            /\ attempt' = IF h.next = "continue" /\ ~exhausted THEN attempt + 1 ELSE attempt
    /\ UNCHANGED <<dedupVars, mainVars, ghVars, prog, srvVars, pc, pagesVars, sprintVars, calls, req>>

\* A RuntimeError of the request call is caught by none of the fetches.
Propagate ==
    /\ pc = "calling"
    /\ callState = "raised"
    /\ pc' = "raised"
    /\ UNCHANGED <<dedupVars, mainVars, ghVars, prog, srvVars, pagesVars, sprintVars, calls, callVars>>

\* fetch_pages: the rest of the loop body, on the value confluence_get returned
FetchPagesPage ==
    /\ prog = "fetch_pages"
    /\ pc = "calling"
    /\ callState = "returned"
    /\ LET results == Get(callData, "results", <<>>)
           fetched == Len(results)
       IN /\ pages' = AppendPages(pages, results)
          /\ start' = NextStart(start, fetched)
          /\ pc' = IF LastPage(fetched) THEN "returned" ELSE "loop"
    /\ UNCHANGED <<dedupVars, mainVars, ghVars, prog, srvVars, limit, sprintVars, calls, callVars>>

\* fetch_sprint_total: the rest of the loop body, on the value jira_post returned
SprintPage ==
    /\ prog = "fetch_sprint_total"
    /\ pc = "calling"
    /\ callState = "returned"
    /\ LET issues == Get(callData, "issues", <<>>)
           token == TokenOf(callData)
       IN /\ total_sp' = total_sp + SumSp(issues, Len(issues))
          /\ null_sp_count' = null_sp_count + NullSp(issues)
          /\ total_tickets' = total_tickets + Len(issues)
          /\ next_page_token' = token
          /\ pc' = IF SprintDone(issues, token) THEN "returned" ELSE "loop"
    /\ UNCHANGED <<dedupVars, mainVars, ghVars, prog, srvVars, pagesVars, sp_fields, calls, callVars>>

\* the value of jira_get is handed to its caller
JiraGetReturn ==
    /\ prog = "jira_get"
    /\ pc = "calling"
    /\ callState = "returned"
    /\ pc' = "returned"
    /\ UNCHANGED <<dedupVars, mainVars, ghVars, prog, srvVars, pagesVars, sprintVars, calls, callVars>>

Next ==
    \/ FetchPagesRequest
    \/ SprintRequest
    \/ JiraGetRequest
    \/ HttpAttempt
    \/ Propagate
    \/ FetchPagesPage
    \/ SprintPage
    \/ JiraGetReturn

Spec == Init /\ [][Next]_vars

\* fetch_pages with _PAGE_LIMIT set to any page size P >= 1, against a server
\* of few records
InitPageSize ==
    /\ prog = "fetch_pages"
    /\ srvN \in 0..MaxRecords
    /\ srvPages = <<>>
    /\ pc = "loop"
    /\ start = 0
    /\ pages = <<>>
    /\ limit \in (1..MaxPageSize) \cup {_PAGE_LIMIT}
    /\ total_tickets = 0
    /\ total_sp = 0
    /\ null_sp_count = 0
    /\ next_page_token = {}
    /\ sp_fields \in (IF prog = "fetch_sprint_total" THEN SpFieldLists ELSE {<<>>})
    /\ calls = <<>>
    /\ req = EmptyDict
    /\ attempt = 1
    /\ hist = <<>>
    /\ callState = "idle"
    /\ callData = EmptyDict
    /\ callError = EmptyDict
    /\ GhIdle
    /\ MainIdle
    /\ DedupIdle

NextPageSize ==
    \/ FetchPagesRequest
    \/ HttpAttempt
    \/ Propagate
    \/ FetchPagesPage

SpecPageSize == InitPageSize /\ [][NextPageSize]_vars

(***************************************************************************)
(* pr_utils.py: gh() and the GitHub fetches.                               *)
(***************************************************************************)
GhProgs == {"discover_repos", "search_pr_numbers", "fetch_prs_for_numbers"}

\* with current_user: all that call gh()
GhCallers == GhProgs \cup {"current_user"}

\* What one run of the gh command ends with: returncode 0 (ok), a failure
\* with a rate limit phrase in stderr (ratelimit), any other failure
\* (error).  reset is what the rate limit query then answers: nothing usable
\* ({}) or the seconds until the reset.
GhOutcomes ==
    {[kind |-> "ok", reset |-> {}], [kind |-> "error", reset |-> {}],
     [kind |-> "ratelimit", reset |-> {}]}
    \cup {[kind |-> "ratelimit", reset |-> {d}] : d \in ResetDeltas}

\* _wait_for_rate_limit_reset: max(0, reset_ts - now) + 2, or the fixed wait
ResetWait(o) ==
    IF o.reset = {} THEN _SECONDARY_RATE_WAIT
    ELSE LET d == CHOOSE x \in o.reset : TRUE IN (IF d > 0 THEN d ELSE 0) + 2

\* mutant: the wait for the reset comes before the test of the last attempt
GhHandle_waitThenRaise(a, o) ==
    IF o.kind = "ok" THEN [next |-> "return", slept |-> {}]
    ELSE IF o.kind = "ratelimit" THEN
        IF a = _MAX_RETRIES_gh THEN [next |-> "raise", slept |-> {ResetWait(o)}]
        ELSE [next |-> "continue", slept |-> {ResetWait(o)}]
    ELSE [next |-> "empty", slept |-> {}]

\* One iteration of the loop of gh(): next is "return" (json.loads of
\* stdout), "empty" (return []), "raise" or "continue".
GhHandle(a, o) ==
    IF o.kind = "ok" THEN [next |-> "return", slept |-> {}]
    ELSE IF o.kind = "ratelimit" THEN
        IF a = _MAX_RETRIES_gh THEN [next |-> "raise", slept |-> {}]
        ELSE [next |-> "continue", slept |-> {ResetWait(o)}]
    ELSE [next |-> "empty", slept |-> {}]

\* the repositories of the search items, in the order of sorted()
RepoCatalog ==
    << [owner |-> "algolia", name |-> "crawler"],
       [owner |-> "algolia", name |-> "metis"],
       [owner |-> "other", name |-> "tool"] >>

\* item i of the search: its repository and PR number
Item(i) == [repo |-> RepoCatalog[((i - 1) % Len(RepoCatalog)) + 1], number |-> i]

\* the items of the search that match the query: all of them, or those of
\* the repository of its repo: qualifier
Matching ==
    SelectSeq([i \in 1..ghItems |-> Item(i)],
              LAMBDA it : query_repo = {} \/ it.repo \in query_repo)

\* the body of search/issues?q=...&per_page=100&page=p
SearchBody(p) ==
    [items |-> SubSeq(Matching, (p - 1) * PER_PAGE + 1, Min(p * PER_PAGE, Len(Matching)))]

\* the body of gh pr view <number> --repo <repo> --json ...
PrBody(rq) ==
    [number |-> rq.number, createdAt |-> 1000 - rq.number, author |-> [login |-> "dev"]]

\* the body of gh api user
UserBody == [login |-> "dev"]

GhBody(rq) ==
    CASE rq.cmd = "search" -> SearchBody(rq.page)
      [] rq.cmd = "user" -> UserBody
      [] OTHER -> PrBody(rq)

\* data.get("items", []) if isinstance(data, dict) else []
ItemsOf(data) == IF data = <<>> THEN <<>> ELSE Get(data, "items", <<>>)

\* f"{org}/" is a prefix of "owner/name"
InOrg(repo, o) == repo.owner = (IF o = {} THEN "None" ELSE CHOOSE x \in o : TRUE)

\* repos after the "for item in items" loop of discover_repos
AddRepos(rs, items, o) ==
    rs \cup {items[j].repo : j \in {k \in 1..Len(items) : InOrg(items[k].repo, o)}}

\* sorted(repos)
RECURSIVE SortedRepos(_, _)
SortedRepos(rs, i) ==
    IF i > Len(RepoCatalog) THEN <<>>
    ELSE (IF RepoCatalog[i] \in rs THEN <<RepoCatalog[i]>> ELSE <<>>) \o SortedRepos(rs, i + 1)

\* results after the "for item in items" loop of search_pr_numbers
AddNumbers(rs, items) == rs \o [j \in 1..Len(items) |-> <<items[j].repo, items[j].number>>]

\* mutant: only an empty page ends the loop
GhLastPage_emptyOnly(items) == items = <<>>

\* if len(items) < 100: break  (after: if not items: break)
GhLastPage(items) == items = <<>> \/ Len(items) < PER_PAGE

\* fetch_pr: None ({}) when gh returned nothing usable, else the normalised PR
FetchPr(repo, data) ==
    IF data = <<>> THEN {}
    ELSE {[number |-> data.number, createdAt |-> data.createdAt, repo |-> repo,
           author |-> data.author.login, labels |-> <<>>, reviews |-> <<>>]}

\* results[(repo, number)] = pr, on a dict kept in insertion order
PutPr(rs, key, pr) ==
    IF \E j \in 1..Len(rs) : rs[j].key = key
    THEN [j \in 1..Len(rs) |-> IF rs[j].key = key THEN [key |-> key, pr |-> pr] ELSE rs[j]]
    ELSE Append(rs, [key |-> key, pr |-> pr])

\* list.insert at the place a stable sort by createdAt gives x
RECURSIVE InsertByCreatedAt(_, _)
InsertByCreatedAt(s, x) ==
    IF s = <<>> THEN <<x>>
    ELSE IF s[Len(s)].createdAt <= x.createdAt THEN Append(s, x)
    ELSE Append(InsertByCreatedAt(SubSeq(s, 1, Len(s) - 1), x), s[Len(s)])

\* sorted(results.values(), key=lambda p: p["createdAt"])
RECURSIVE SortedPrs(_, _)
SortedPrs(rs, n) ==
    IF n = 0 THEN <<>> ELSE InsertByCreatedAt(SortedPrs(rs, n - 1), rs[n].pr)

GhServerSizes == {n * PER_PAGE + k : n \in 0..MaxGhFullPages, k \in GhShortSizes}

\* the variables of the Atlassian fetches, which the GitHub fetches leave alone
AtlIdle ==
    /\ srvN = 0
    /\ srvPages = <<>>
    /\ start = 0
    /\ pages = <<>>
    /\ limit = _PAGE_LIMIT
    /\ total_tickets = 0
    /\ total_sp = 0
    /\ null_sp_count = 0
    /\ next_page_token = {}
    /\ sp_fields = <<>>

InitGh ==
    /\ prog \in GhProgs
    /\ ghItems \in (IF prog = "fetch_prs_for_numbers" THEN {0} ELSE GhServerSizes)
    /\ org \in (IF prog = "discover_repos" THEN {{}, {"algolia"}} ELSE {{}})
    /\ numbers \in (IF prog = "fetch_prs_for_numbers"
                    THEN {[j \in 1..m |-> <<Item(j).repo, Item(j).number>>] : m \in 0..MaxPrs}
                    ELSE {<<>>})
    /\ page = 1
    /\ repos = {}
    /\ ghResults = <<>>
    /\ idx = 1
    /\ ret = <<>>
    /\ pc = "loop"
    /\ calls = <<>>
    /\ req = EmptyDict
    /\ attempt = 1
    /\ hist = <<>>
    /\ callState = "idle"
    /\ callData = EmptyDict
    /\ callError = EmptyDict
    /\ AtlIdle
    /\ MainIdle
    /\ DedupIdle

atlVars == <<srvVars, pagesVars, sprintVars>>

\* discover_repos, search_pr_numbers: gh("api", "search/issues?...&page={page}")
GhSearchRequest ==
    /\ prog \in {"discover_repos", "search_pr_numbers"}
    /\ pc = "loop"
    /\ Call([cmd |-> "search", page |-> page])
    /\ UNCHANGED <<dedupVars, mainVars, ghVars, prog, atlVars>>

\* fetch_prs_for_numbers: the next pair of numbers, fetch_pr calls gh
GhPrRequest ==
    /\ prog = "fetch_prs_for_numbers"
    /\ pc = "loop"
    /\ idx <= Len(numbers)
    /\ Call([cmd |-> "pr view", repo |-> numbers[idx][1], number |-> numbers[idx][2]])
    /\ UNCHANGED <<dedupVars, mainVars, ghVars, prog, atlVars>>

\* One iteration of the loop of gh(): the command runs and its end is handled.
GhAttempt ==
    /\ prog \in GhCallers
    /\ pc = "calling"
    /\ callState = "running"
    /\ \E o \in GhOutcomes :
         LET h == GhHandle(attempt, o)
         IN /\ hist' = Append(hist, [attempt |-> attempt, req |-> req,
                                     resp |-> o, slept |-> h.slept])
            /\ callState' = CASE h.next \in {"return", "empty"} -> "returned"
                              [] h.next = "raise" -> "raised"
                              [] OTHER -> "running"
            /\ callData' = IF h.next = "return" THEN GhBody(req) ELSE <<>>
            /\ callError' = IF h.next = "raise"
                            THEN [msg |-> "Rate limit persists after retries", status |-> {},
                                  url |-> {}, detail |-> {}, reason |-> {}]
                            ELSE EmptyDict
            /\ attempt' = IF h.next = "continue" THEN attempt + 1 ELSE attempt
    /\ UNCHANGED <<dedupVars, mainVars, ghVars, prog, atlVars, pc, calls, req>>

\* discover_repos: the rest of the loop body, on the value gh returned
DiscoverReposPage ==
    /\ prog = "discover_repos"
    /\ pc = "calling"
    /\ callState = "returned"
    /\ LET items == ItemsOf(callData)
       IN /\ repos' = (IF items = <<>> THEN repos ELSE AddRepos(repos, items, org))
          /\ IF GhLastPage(items)
             THEN /\ pc' = "returned"
                  /\ ret' = SortedRepos(repos', 1)
                  /\ page' = page
             ELSE /\ pc' = "loop"
                  /\ ret' = ret
                  /\ page' = page + 1
    /\ UNCHANGED <<dedupVars, mainVars, ghItems, org, numbers, ghResults, idx, prog, atlVars, calls, callVars>>

\* search_pr_numbers: the rest of the loop body, on the value gh returned
SearchPrNumbersPage ==
    /\ prog = "search_pr_numbers"
    /\ pc = "calling"
    /\ callState = "returned"
    /\ LET items == ItemsOf(callData)
       IN /\ ghResults' = (IF items = <<>> THEN ghResults ELSE AddNumbers(ghResults, items))
          /\ IF GhLastPage(items)
             THEN /\ pc' = "returned"
                  /\ ret' = ghResults'
                  /\ page' = page
             ELSE /\ pc' = "loop"
                  /\ ret' = ret
                  /\ page' = page + 1
    /\ UNCHANGED <<dedupVars, mainVars, ghItems, org, numbers, repos, idx, prog, atlVars, calls, callVars>>

\* fetch_prs_for_numbers: fetch_pr ends, "if pr: results[(repo, number)] = pr"
FetchPrDone ==
    /\ prog = "fetch_prs_for_numbers"
    /\ pc = "calling"
    /\ callState = "returned"
    /\ LET pr == FetchPr(req.repo, callData)
       IN ghResults' = (IF pr = {} THEN ghResults
                        ELSE PutPr(ghResults, <<req.repo, req.number>>, CHOOSE x \in pr : TRUE))
    /\ idx' = idx + 1
    /\ pc' = "loop"
    /\ UNCHANGED <<dedupVars, mainVars, ghItems, org, numbers, page, repos, ret, prog, atlVars, calls, callVars>>

\* fetch_prs_for_numbers: the loop over numbers is over, the sorted list is returned
FetchPrsReturn ==
    /\ prog = "fetch_prs_for_numbers"
    /\ pc = "loop"
    /\ idx > Len(numbers)
    /\ ret' = SortedPrs(ghResults, Len(ghResults))
    /\ pc' = "returned"
    /\ UNCHANGED <<dedupVars, mainVars, ghItems, org, numbers, page, repos, ghResults, idx, prog, atlVars, calls, callVars>>

NextGh ==
    \/ GhSearchRequest
    \/ GhPrRequest
    \/ GhAttempt
    \/ Propagate
    \/ DiscoverReposPage
    \/ SearchPrNumbersPage
    \/ FetchPrDone
    \/ FetchPrsReturn

SpecGh == InitGh /\ [][NextGh]_vars

\* every fetch, Atlassian or GitHub, called on its own
InitAll == Init \/ InitGh
NextAll == Next \/ NextGh
SpecAll == InitAll /\ [][NextAll]_vars

(***************************************************************************)
(* main() of the four fetch scripts: the cache check, then the fetches in  *)
(* the order main calls them, then the write of the output file.           *)
(***************************************************************************)
MaxSprints == 2

\* the data the servers hold in a run of main()
RunServerSizes == {0, 1}
RunTokenServers == {<<0>>, <<2>>}
RunItemCounts == {0, 2}

AtlScripts == {"fetch_confluence", "fetch_sprint_totals"}
GhScripts == {"fetch_prs", "fetch_reviewed_prs"}

_DEFAULT_SP_FIELD == "customfield_10016"
_SP_FIELD_NAMES == {"story points", "story point estimate", "story points estimate"}

\* str.lower() on the field names of the registry
Lower(name) ==
    CASE name = "Story point estimate" -> "story point estimate"
      [] name = "Story Points" -> "story points"
      [] name = "Summary" -> "summary"
      [] OTHER -> name

\* mutant: add(fid) appends without looking at what is there
Add_again(c, fid) == Append(c, fid)

\* resolve_sp_fields: add(fid)
Add(c, fid) == IF \E j \in 1..Len(c) : c[j] = fid THEN c ELSE Append(c, fid)

\* resolve_sp_fields: candidates after the first n fields of the registry
RECURSIVE AddNameMatched(_, _, _)
AddNameMatched(c, all_fields, n) ==
    IF n = 0 THEN c
    ELSE LET before == AddNameMatched(c, all_fields, n - 1)
         IN IF Lower(all_fields[n].name) \in _SP_FIELD_NAMES
            THEN Add(before, all_fields[n].id) ELSE before

\* resolve_sp_fields: candidates after the first k fields of one probed issue
\* (customfield_* keys with a number > 0)
RECURSIVE AddIssueFields(_, _, _)
AddIssueFields(c, i, k) ==
    IF k = 0 THEN c
    ELSE LET before == AddIssueFields(c, i, k - 1)
             v == IssueFields(i)[SpFields[k]]
         IN IF v # {} /\ (\A x \in v : x > 0) THEN Add(before, SpFields[k]) ELSE before

\* resolve_sp_fields: candidates after the first n probed issues
RECURSIVE AddProbed(_, _, _)
AddProbed(c, issues, n) ==
    IF n = 0 THEN c
    ELSE AddIssueFields(AddProbed(c, issues, n - 1), issues[n], Len(SpFields))

\* mutant: --force is not looked at
CacheHit_forceIgnored == existed

\* if output_path.exists() and not args.force
CacheHit == existed /\ ~force

flagVars == <<script, force, authorGiven, existed, input>>

InitRun ==
    /\ script \in AtlScripts \cup GhScripts
    /\ existed \in BOOLEAN
    /\ force \in (IF existed THEN BOOLEAN ELSE {FALSE})
    /\ output = (IF existed THEN "old" ELSE "absent")
    /\ authorGiven \in (IF script \in GhScripts THEN BOOLEAN ELSE {TRUE})
    /\ input \in (IF script = "fetch_sprint_totals"
                  THEN {{}} \cup {{n} : n \in 0..MaxSprints} ELSE {{}})
    /\ srvN \in (IF script = "fetch_confluence" THEN RunServerSizes ELSE {0})
    /\ srvPages \in (IF script = "fetch_sprint_totals"
                     THEN RunTokenServers ELSE {<<>>})
    /\ ghItems \in (IF script \in GhScripts THEN RunItemCounts ELSE {0})
    /\ org \in (IF script \in GhScripts THEN {{}, {"algolia"}} ELSE {{}})
    /\ prog = "main"
    /\ pc = "idle"
    /\ mainPc = "start"
    /\ start = 0
    /\ pages = <<>>
    /\ limit = _PAGE_LIMIT
    /\ total_tickets = 0
    /\ total_sp = 0
    /\ null_sp_count = 0
    /\ next_page_token = {}
    /\ sp_fields = <<>>
    /\ calls = <<>>
    /\ req = EmptyDict
    /\ attempt = 1
    /\ hist = <<>>
    /\ callState = "idle"
    /\ callData = EmptyDict
    /\ callError = EmptyDict
    /\ numbers = <<>>
    /\ page = 1
    /\ repos = {}
    /\ ghResults = <<>>
    /\ idx = 1
    /\ ret = <<>>
    /\ query_repo = {}
    /\ candidates = <<>>
    /\ main_repos = <<>>
    /\ main_i = 0
    /\ DedupIdle

\* fetch_pages(...) is called
EnterFetchPages ==
    /\ prog' = "fetch_pages"
    /\ pc' = "loop"
    /\ start' = 0
    /\ pages' = <<>>
    /\ limit' = limit

\* fetch_sprint_total(..., sp_fields) is called
EnterSprintTotal(fields) ==
    /\ prog' = "fetch_sprint_total"
    /\ pc' = "loop"
    /\ total_tickets' = 0
    /\ total_sp' = 0
    /\ null_sp_count' = 0
    /\ next_page_token' = {}
    /\ sp_fields' = fields

\* fetch_confluence.main up to the first fetch_pages call
ConfluenceMain ==
    /\ script = "fetch_confluence"
    /\ mainPc = "start"
    /\ IF CacheHit
       THEN /\ mainPc' = "cache_hit"
            /\ UNCHANGED <<prog, pc, pagesVars>>
       ELSE \E credentials \in BOOLEAN :
              IF credentials
              THEN mainPc' = "created" /\ EnterFetchPages
              ELSE mainPc' = "exit1" /\ UNCHANGED <<prog, pc, pagesVars>>
    /\ UNCHANGED <<srvVars, sprintVars, calls, callVars, ghVars, query_repo, flagVars, dedupVars,
                   output, candidates, main_repos, main_i>>

\* mutant: the file is written as soon as the created pages are there
MainCreatedDone_writesFirst ==
    /\ mainPc = "created"
    /\ prog = "fetch_pages"
    /\ pc = "returned"
    /\ mainPc' = "contributed"
    /\ output' = "new"
    /\ EnterFetchPages
    /\ UNCHANGED <<srvVars, sprintVars, calls, callVars, ghVars, query_repo, flagVars, dedupVars,
                   candidates, main_repos, main_i>>

\* created = fetch_pages(...) has returned: contributed = fetch_pages(...)
MainCreatedDone ==
    /\ mainPc = "created"
    /\ prog = "fetch_pages"
    /\ pc = "returned"
    /\ mainPc' = "contributed"
    /\ EnterFetchPages
    /\ UNCHANGED <<srvVars, sprintVars, calls, callVars, ghVars, query_repo, flagVars, dedupVars,
                   output, candidates, main_repos, main_i>>

\* contributed = fetch_pages(...) has returned: output_path.write_text(...)
MainContributedDone ==
    /\ mainPc = "contributed"
    /\ prog = "fetch_pages"
    /\ pc = "returned"
    /\ mainPc' = "done"
    /\ output' = "new"
    /\ UNCHANGED <<prog, pc, srvVars, pagesVars, sprintVars, calls, callVars, ghVars,
                   query_repo, flagVars, dedupVars, candidates, main_repos, main_i>>

\* fetch_sprint_totals.main up to the call of resolve_sp_fields, and
\* resolve_sp_fields up to its jira_get call
SprintTotalsMain ==
    /\ script = "fetch_sprint_totals"
    /\ mainPc = "start"
    /\ IF input = {}
       THEN mainPc' = "exit1" /\ UNCHANGED <<prog, pc, candidates>>
       ELSE IF CacheHit
       THEN mainPc' = "cache_hit" /\ UNCHANGED <<prog, pc, candidates>>
       ELSE \E credentials \in BOOLEAN :
              IF ~credentials
              THEN mainPc' = "exit1" /\ UNCHANGED <<prog, pc, candidates>>
              ELSE IF input = {0}
              THEN mainPc' = "nothing" /\ UNCHANGED <<prog, pc, candidates>>
              ELSE \E primary_field \in {_DEFAULT_SP_FIELD, "customfield_10028"} :
                     /\ mainPc' = "resolve_registry"
                     /\ candidates' = Add(<<>>, primary_field)
                     /\ prog' = "jira_get"
                     /\ pc' = "loop"
    /\ UNCHANGED <<srvVars, pagesVars, sprintVars, calls, callVars, ghVars, query_repo,
                   flagVars, dedupVars, output, main_repos, main_i>>

\* resolve_sp_fields: the jira_get of the registry has returned or raised
\* (except Exception: pass); the probe follows
ResolveRegistryDone ==
    /\ mainPc = "resolve_registry"
    /\ prog = "jira_get"
    /\ pc \in {"returned", "raised"}
    /\ candidates' = (IF pc = "returned"
                      THEN AddNameMatched(candidates, callData, Len(callData))
                      ELSE candidates)
    /\ mainPc' = "resolve_probe"
    /\ prog' = "probe"
    /\ pc' = "loop"
    /\ UNCHANGED <<srvVars, pagesVars, sprintVars, calls, callVars, ghVars, query_repo,
                   flagVars, dedupVars, output, main_repos, main_i>>

\* resolve_sp_fields: jira_post(.../search/jql, {"jql": ..., "fields": ["*all"], "maxResults": 5})
ProbeRequest ==
    /\ prog = "probe"
    /\ pc = "loop"
    /\ Call([url |-> "/rest/api/3/search/jql", maxResults |-> 5])
    /\ UNCHANGED <<dedupVars, mainVars, ghVars, prog, srvVars, pagesVars, sprintVars>>

\* the value of jira_post is handed to resolve_sp_fields
ProbeReturn ==
    /\ prog = "probe"
    /\ pc = "calling"
    /\ callState = "returned"
    /\ pc' = "returned"
    /\ UNCHANGED <<dedupVars, mainVars, ghVars, prog, srvVars, pagesVars, sprintVars, calls, callVars>>

\* resolve_sp_fields: the probe has returned or raised (except Exception:
\* pass), candidates is returned; main enters the loop over sprints
ResolveProbeDone ==
    /\ mainPc = "resolve_probe"
    /\ prog = "probe"
    /\ pc \in {"returned", "raised"}
    /\ LET issues == Get(callData, "issues", <<>>)
           c == IF pc = "returned" THEN AddProbed(candidates, issues, Len(issues))
                ELSE candidates
       IN /\ candidates' = c
          /\ EnterSprintTotal(c)
    /\ main_i' = 1
    /\ mainPc' = "sprints"
    /\ UNCHANGED <<srvVars, pagesVars, calls, callVars, ghVars, query_repo, flagVars, dedupVars,
                   output, main_repos>>

\* fetch_sprint_total has returned for sprint main_i: the next sprint, or
\* output_path.write_text(...)
MainSprintDone ==
    /\ mainPc = "sprints"
    /\ prog = "fetch_sprint_total"
    /\ pc = "returned"
    /\ IF input # {main_i}
       THEN /\ main_i' = main_i + 1
            /\ EnterSprintTotal(sp_fields)
            /\ UNCHANGED <<mainPc, output>>
       ELSE /\ mainPc' = "done"
            /\ output' = "new"
            /\ UNCHANGED <<prog, pc, sprintVars, main_i>>
    /\ UNCHANGED <<srvVars, pagesVars, calls, callVars, ghVars, query_repo, flagVars, dedupVars,
                   candidates, main_repos>>

\* the cache check of fetch_prs / fetch_reviewed_prs, then discover_repos(...)
GhCacheCheck ==
    IF CacheHit
    THEN /\ mainPc' = "cache_hit"
         /\ UNCHANGED <<prog, pc, page, repos, query_repo>>
    ELSE /\ mainPc' = "discover"
         /\ prog' = "discover_repos"
         /\ pc' = "loop"
         /\ page' = 1
         /\ repos' = {}
         /\ query_repo' = {}

\* fetch_prs.main, fetch_reviewed_prs.main: author = args.author or
\* current_user(), then, with --author, the cache check
GhMain ==
    /\ script \in GhScripts
    /\ mainPc = "start"
    /\ IF authorGiven
       THEN GhCacheCheck
       ELSE /\ mainPc' = "author"
            /\ prog' = "current_user"
            /\ pc' = "loop"
            /\ UNCHANGED <<page, repos, query_repo>>
    /\ UNCHANGED <<srvVars, pagesVars, sprintVars, calls, callVars, ghItems, org, numbers,
                   ghResults, idx, ret, flagVars, dedupVars, output, candidates, main_repos, main_i>>

\* current_user: gh("api", "user")
CurrentUserRequest ==
    /\ prog = "current_user"
    /\ pc = "loop"
    /\ Call([cmd |-> "user"])
    /\ UNCHANGED <<dedupVars, mainVars, ghVars, prog, atlVars>>

\* current_user: gh(...)["login"], a TypeError on the [] of a failed command
CurrentUserReturn ==
    /\ prog = "current_user"
    /\ pc = "calling"
    /\ callState = "returned"
    /\ pc' = (IF callData = <<>> THEN "raised" ELSE "returned")
    /\ UNCHANGED <<dedupVars, mainVars, ghVars, prog, atlVars, calls, callVars>>

\* current_user() has returned: the cache check
MainAuthorDone ==
    /\ mainPc = "author"
    /\ prog = "current_user"
    /\ pc = "returned"
    /\ GhCacheCheck
    /\ UNCHANGED <<srvVars, pagesVars, sprintVars, calls, callVars, ghItems, org, numbers,
                   ghResults, idx, ret, flagVars, dedupVars, output, candidates, main_repos, main_i>>

\* search_pr_numbers(f"...+repo:{repo}", since) is called
EnterSearch(repo) ==
    /\ prog' = "search_pr_numbers"
    /\ pc' = "loop"
    /\ page' = 1
    /\ ghResults' = <<>>
    /\ query_repo' = {repo}
    /\ UNCHANGED idx

\* fetch_prs_for_numbers(all_numbers) is called
EnterDetails ==
    /\ prog' = "fetch_prs_for_numbers"
    /\ pc' = "loop"
    /\ idx' = 1
    /\ ghResults' = <<>>
    /\ UNCHANGED <<page, query_repo>>

\* repos = discover_repos(...) has returned: the loop over repos begins;
\* numbers holds all_numbers of main
MainDiscoverDone ==
    /\ mainPc = "discover"
    /\ prog = "discover_repos"
    /\ pc = "returned"
    /\ main_repos' = ret
    /\ main_i' = 1
    /\ numbers' = <<>>
    /\ IF ret = <<>>
       THEN mainPc' = "details" /\ EnterDetails
       ELSE mainPc' = "search" /\ EnterSearch(ret[1])
    /\ UNCHANGED <<srvVars, pagesVars, sprintVars, calls, callVars, ghItems, org, repos,
                   ret, flagVars, dedupVars, output, candidates>>

\* search_pr_numbers has returned for repos[main_i]: all_numbers.extend(numbers),
\* then the next repo or fetch_prs_for_numbers
MainSearchDone ==
    /\ mainPc = "search"
    /\ prog = "search_pr_numbers"
    /\ pc = "returned"
    /\ numbers' = numbers \o ret
    /\ IF main_i < Len(main_repos)
       THEN /\ main_i' = main_i + 1
            /\ EnterSearch(main_repos[main_i + 1])
            /\ UNCHANGED mainPc
       ELSE /\ mainPc' = "details"
            /\ EnterDetails
            /\ UNCHANGED main_i
    /\ UNCHANGED <<srvVars, pagesVars, sprintVars, calls, callVars, ghItems, org, repos,
                   ret, flagVars, dedupVars, output, candidates, main_repos>>

\* prs = fetch_prs_for_numbers(...) has returned: output_path.write_text(...)
MainDetailsDone ==
    /\ mainPc = "details"
    /\ prog = "fetch_prs_for_numbers"
    /\ pc = "returned"
    /\ mainPc' = "done"
    /\ output' = "new"
    /\ UNCHANGED <<prog, pc, srvVars, pagesVars, sprintVars, calls, callVars, ghVars,
                   query_repo, flagVars, dedupVars, candidates, main_repos, main_i>>

\* An exception that leaves a fetch is caught nowhere in main.
MainRaise ==
    /\ mainPc \in {"author", "created", "contributed", "sprints", "discover", "search", "details"}
    /\ pc = "raised"
    /\ mainPc' = "failed"
    /\ UNCHANGED <<prog, pc, srvVars, pagesVars, sprintVars, calls, callVars, ghVars,
                   query_repo, flagVars, dedupVars, output, candidates, main_repos, main_i>>

NextRun ==
    \/ ConfluenceMain
    \/ MainCreatedDone
    \/ MainContributedDone
    \/ SprintTotalsMain
    \/ ResolveRegistryDone
    \/ ProbeRequest
    \/ ProbeReturn
    \/ ResolveProbeDone
    \/ MainSprintDone
    \/ GhMain
    \/ CurrentUserRequest
    \/ CurrentUserReturn
    \/ MainAuthorDone
    \/ MainDiscoverDone
    \/ MainSearchDone
    \/ MainDetailsDone
    \/ MainRaise
    \/ Next
    \/ NextGh

SpecRun == InitRun /\ [][NextRun]_vars

(***************************************************************************)
(* Observations on the current request call.                               *)
(***************************************************************************)
\* the call has ended and the last answer was a successful response
LastRespOk == hist # <<>> /\ hist[Len(hist)].resp.kind = "ok"

\* a response handled by the generic branch in all three functions
Generic(r) == r.kind = "url" \/ (r.kind = "http" /\ r.code \notin {401, 403, 410, 429})

\* a transient failure: rate limit, 5xx, network error
Transient(r) == r.kind = "url" \/ (r.kind = "http" /\ r.code \in {429, 500})

CallEnded == callState \in {"returned", "raised"}

\* the records the fetch of the Confluence query has to return
AllPages == [i \in 1..srvN |-> PageOf(i)]

\* the page after which the JIRA search itself ends the fetch: the first
\* page without issues, else the last page
RECURSIVE EndPage(_)
EndPage(j) == IF j = Len(srvPages) \/ srvPages[j] = 0 THEN j ELSE EndPage(j + 1)

(***************************************************************************)
(* C1: a logical Atlassian fetch that returns normally covers every page   *)
(* the server holds (up to the page by which the server itself signalled   *)
(* the end); otherwise it raises.  Stated of the returned result.          *)
(***************************************************************************)
C1_NoSilentTruncation ==
    pc = "returned" =>
        CASE prog = "fetch_pages" -> pages = AllPages
          [] prog = "fetch_sprint_total" ->
                total_tickets = SumTo(srvPages, EndPage(1))
          [] OTHER -> TRUE

(***************************************************************************)
(* C2: a logical GitHub fetch that returns normally returns every record   *)
(* the server holds for the query: every matching repository of the org,   *)
(* every (repo, number) pair, a PR record for every pair asked for.        *)
(***************************************************************************)
C2_GhNoSilentTruncation ==
    pc = "returned" =>
        CASE prog = "search_pr_numbers" ->
                ret = [i \in 1..ghItems |-> <<Item(i).repo, Item(i).number>>]
          [] prog = "discover_repos" ->
                {ret[j] : j \in 1..Len(ret)} =
                    {Item(i).repo : i \in {k \in 1..ghItems : InOrg(Item(k).repo, org)}}
          [] prog = "fetch_prs_for_numbers" ->
                {<<ret[j].repo, ret[j].number>> : j \in 1..Len(ret)} =
                    {numbers[j] : j \in 1..Len(numbers)}
          [] OTHER -> TRUE

(***************************************************************************)
(* C3: offset mode.  When the server answered n full pages and then a page *)
(* of k < P records, fetch_pages issued exactly n+1 page requests, with    *)
(* the start offsets 0, P, ..., nP in this order, and returns nP+k records.*)
(***************************************************************************)
C3_OffsetMode ==
    (prog = "fetch_pages" /\ pc = "returned" /\ LastRespOk) =>
        LET n == srvN \div _PAGE_LIMIT
            k == srvN % _PAGE_LIMIT
        IN /\ Len(calls) = n + 1
           /\ \A i \in 1..Len(calls) :
                 calls[i] = [start |-> (i - 1) * _PAGE_LIMIT, limit |-> _PAGE_LIMIT]
           /\ Len(pages) = n * _PAGE_LIMIT + k

C3_Witness ==
    /\ prog = "fetch_pages" /\ pc = "returned" /\ LastRespOk
    /\ srvN = 3 * _PAGE_LIMIT + 1
    /\ Len(calls) = 4
    /\ Len(pages) = 3 * _PAGE_LIMIT + 1

(***************************************************************************)
(* C4: token mode.  When the server returned a token on every page but the *)
(* last, each page before the last with at least one issue, and the last   *)
(* page was answered, fetch_sprint_total issued exactly one request per    *)
(* page (3 for 3 pages) and total_tickets is the sum of the pages' issues. *)
(***************************************************************************)
C4_TokenMode ==
    (/\ prog = "fetch_sprint_total" /\ pc = "returned" /\ LastRespOk
     /\ \A j \in 1..(Len(srvPages) - 1) : srvPages[j] >= 1) =>
        /\ Len(calls) = Len(srvPages)
        /\ total_tickets = SumTo(srvPages, Len(srvPages))

C4_Witness ==
    /\ prog = "fetch_sprint_total" /\ pc = "returned" /\ LastRespOk
    /\ Len(srvPages) = 3 /\ srvPages[1] >= 1 /\ srvPages[2] >= 1 /\ srvPages[3] >= 1
    /\ Len(calls) = 3
    /\ total_tickets = srvPages[1] + srvPages[2] + srvPages[3]

(***************************************************************************)
(* C5: a 401 or 403 answer ends the call at once with a RuntimeError: it   *)
(* is the last attempt of the call and no sleep follows it; when it is the *)
(* first answer, the call made one request and slept never.                *)
(***************************************************************************)
C5_AuthFailsAtOnce ==
    \A i \in 1..Len(hist) :
        hist[i].resp.code \in {401, 403} =>
            /\ i = Len(hist)
            /\ hist[i].slept = {}
            /\ callState = "raised"
            /\ attempt = hist[i].attempt

C5_Witness ==
    /\ Len(hist) = 3
    /\ hist[3].resp.code = 403
    /\ hist[1].slept # {}
    /\ pc = "raised"

(***************************************************************************)
(* C6 (as claimed): a 410 answer is fatal in every HTTP function: raised   *)
(* at once, no sleep, no further attempt.                                  *)
(***************************************************************************)
C6_GoneFatalEverywhere ==
    \A i \in 1..Len(hist) :
        hist[i].resp.code = 410 =>
            /\ i = Len(hist)
            /\ hist[i].slept = {}
            /\ callState = "raised"

(***************************************************************************)
(* C6 (amended): a 410 answer is fatal in jira_get and jira_post: raised   *)
(* at once, no sleep, no further attempt.  confluence_get handles 410 as   *)
(* any other HTTP error: backoff and retry, RuntimeError on attempt 5.     *)
(***************************************************************************)
C6_GoneFatalInJira ==
    \A i \in 1..Len(hist) :
        hist[i].resp.code = 410 =>
            IF fn \in {"jira_get", "jira_post"}
            THEN /\ i = Len(hist)
                 /\ hist[i].slept = {}
                 /\ callState = "raised"
            ELSE IF hist[i].attempt = _MAX_RETRIES_confluence
                 THEN /\ i = Len(hist)
                      /\ hist[i].slept = {}
                      /\ callState = "raised"
                 ELSE /\ hist[i].slept = {_BACKOFF_BASE_confluence * Pow2(hist[i].attempt)}
                      /\ (i = Len(hist) => callState = "running" /\ attempt = i + 1)

C6_Witness ==
    /\ fn = "jira_post"
    /\ Len(hist) = 2
    /\ hist[2].resp.code = 410
    /\ pc = "raised"

(***************************************************************************)
(* C7: when every attempt of a call is answered by HTTP 500 or a network   *)
(* error, the call issues exactly 5 requests and then raises; each wait    *)
(* between two attempts is the double of the one before, and no wait       *)
(* follows the last attempt.                                               *)
(***************************************************************************)
C7_GenericExhaustion ==
    (\A i \in 1..Len(hist) : Generic(hist[i].resp)) =>
        /\ Len(hist) <= 5
        /\ \A i \in 1..Len(hist) :
              IF i = 5 THEN hist[i].slept = {} ELSE Cardinality(hist[i].slept) = 1
        /\ \A i \in 2..Len(hist) : i < 5 =>
              \A w \in hist[i].slept : \A v \in hist[i - 1].slept : w = 2 * v /\ w > v
        /\ (Len(hist) < 5 => callState \in {"idle", "running"})
        /\ (Len(hist) = 5 => callState = "raised")

C7_Witness ==
    /\ Len(hist) = 5
    /\ \A i \in 1..5 : Generic(hist[i].resp)
    /\ hist[2].resp.kind = "url"
    /\ hist[5].resp.code = 500
    /\ hist[4].slept = {80}
    /\ pc = "raised"

(***************************************************************************)
(* C8: after a 429 answer the function sleeps at least Retry-After seconds *)
(* (60 without the header) and then attempts the same request again: every *)
(* such sleep is followed by another attempt.                              *)
(***************************************************************************)
C8_RateLimitSleepThenRetry ==
    \A i \in 1..Len(hist) :
        hist[i].resp.code = 429 =>
            /\ \E w \in hist[i].slept :
                  \A n \in (IF hist[i].resp.retryAfter = {} THEN {60}
                            ELSE hist[i].resp.retryAfter) : w >= n
            /\ IF i < Len(hist) THEN hist[i + 1].req = hist[i].req
               ELSE callState = "running" /\ req = hist[i].req

(***************************************************************************)
(* C9: a call issues at most 5 requests, whatever the answers, and has     *)
(* ended when the fifth is answered.                                       *)
(***************************************************************************)
C9_AtMostMaxRetriesRequests ==
    /\ Len(hist) <= 5
    /\ \A i \in 1..Len(hist) : hist[i].attempt = i
    /\ (Len(hist) = 5 => CallEnded)

C9_Witness ==
    /\ Len(hist) = 5
    /\ \A i \in 1..5 : hist[i].resp.code = 429
    /\ CallEnded

(***************************************************************************)
(* C10: a call ends by returning the parsed body of a successful response  *)
(* or by raising; a call whose attempts were all answered by transient     *)
(* errors ends by raising.                                                 *)
(***************************************************************************)
C10_ReturnsBodyOrRaises ==
    /\ (callState = "returned" => LastRespOk /\ callData = ServerBody(prog, req))
    /\ ((CallEnded /\ \A i \in 1..Len(hist) : Transient(hist[i].resp)) =>
            callState = "raised")

(***************************************************************************)
(* C11: the RuntimeError raised when the attempts of a request are         *)
(* exhausted carries the last HTTP status, the URL of the request and the  *)
(* response body cut to at most 500 characters, for HTTP errors and        *)
(* network errors alike.                                                   *)
(***************************************************************************)
C11_ExhaustionDiagnostics ==
    (/\ prog \in Progs /\ callState = "raised" /\ Len(hist) = MaxRetries(fn)
     /\ Transient(hist[Len(hist)].resp)) =>
        LET last == hist[Len(hist)].resp
        IN /\ callError.url = {req}
           /\ \E d \in callError.detail : d <= 500 /\ d <= last.bodyLen
           /\ (last.kind = "http" => callError.status = {last.code})

(***************************************************************************)
(* C12: a successful response ends the call at once: it is the last        *)
(* attempt of the call, no sleep follows it, and the call returns the      *)
(* parsed body to its caller, whatever failed attempts came before (gh()   *)
(* included).                                                              *)
(***************************************************************************)
C12_SuccessReturnsAtOnce ==
    \A i \in 1..Len(hist) :
        hist[i].resp.kind = "ok" =>
            /\ i = Len(hist)
            /\ hist[i].slept = {}
            /\ callState = "returned"
            /\ attempt = hist[i].attempt
            /\ (pc = "calling" =>
                   callData = (IF prog \in GhCallers THEN GhBody(req)
                               ELSE ServerBody(prog, req)))

C12_Witness ==
    /\ prog = "fetch_pages"
    /\ pc = "calling"
    /\ callState = "returned"
    /\ Len(hist) = 5
    /\ hist[4].slept # {}
    /\ LastRespOk
    /\ Len(callData.results) = 1

(***************************************************************************)
(* C13: for a stable server of N records that answers every page request,  *)
(* fetch_pages returns the same list, the records 1..N in order, for       *)
(* every page size P >= 1; so two runs of one query return the same.       *)
(***************************************************************************)
C13_PageSizeIndependence ==
    (prog = "fetch_pages" /\ pc = "returned" /\ LastRespOk) => pages = AllPages

C13_Witness ==
    /\ prog = "fetch_pages" /\ pc = "returned" /\ LastRespOk
    /\ limit = 2 /\ srvN = 4
    /\ Len(calls) = 3
    /\ pages = AllPages

\* the calls whose value the loop body has consumed
Consumed == IF pc \in {"loop", "returned"} THEN Len(calls) ELSE Len(calls) - 1

\* the records call i brought: those of the server's answer, or none when
\* the call (the last one) returned without an answer
PageReceived(i) ==
    IF i = Len(calls) /\ ~LastRespOk THEN <<>> ELSE ConfluenceBody(calls[i]).results

RECURSIVE ReceivedUpTo(_)
ReceivedUpTo(k) == IF k = 0 THEN <<>> ELSE ReceivedUpTo(k - 1) \o PageReceived(k)

HasSp(i) == \E k \in 1..Len(sp_fields) : IssueFields(i)[sp_fields[k]] # {}

\* the value of ticket i in the first of sp_fields that holds one
SpValue(i) ==
    LET k == CHOOSE k \in 1..Len(sp_fields) :
                 /\ IssueFields(i)[sp_fields[k]] # {}
                 /\ \A m \in 1..(k - 1) : IssueFields(i)[sp_fields[m]] = {}
    IN CHOOSE v \in IssueFields(i)[sp_fields[k]] : TRUE

RECURSIVE SpTotal(_)
SpTotal(n) == IF n = 0 THEN 0 ELSE SpTotal(n - 1) + (IF HasSp(n) THEN SpValue(n) ELSE 0)

(***************************************************************************)
(* C20: in fetch_sprint_total a ticket without value in every sp_field is  *)
(* counted in total_tickets and in _null_sp_count and adds nothing to      *)
(* total_story_points; a ticket with values adds the value of the first    *)
(* field of sp_fields that holds one; after every page the tickets with a  *)
(* value plus _null_sp_count are total_tickets.                            *)
(***************************************************************************)
C20_NullStoryPoints ==
    prog = "fetch_sprint_total" =>
        /\ null_sp_count = Cardinality({i \in 1..total_tickets : ~HasSp(i)})
        /\ Cardinality({i \in 1..total_tickets : HasSp(i)}) + null_sp_count = total_tickets
        /\ total_sp = SpTotal(total_tickets)

C20_Witness ==
    /\ prog = "fetch_sprint_total" /\ pc = "returned"
    /\ sp_fields = <<"customfield_10028", "customfield_10016">>
    /\ total_tickets = 3
    /\ null_sp_count = 1
    /\ total_sp = 3

\* every run of the command of the present gh() call met a rate limit
AllRateLimited == \A i \in 1..Len(hist) : hist[i].resp.kind = "ratelimit"

(***************************************************************************)
(* C16: gh() retries on rate-limit errors and raises when the retries are  *)
(* exhausted: when every run of the command fails with a rate-limit phrase *)
(* the command is run exactly _MAX_RETRIES (5) times, each run but the     *)
(* last is followed by the wait for the reset, and the call then raises;   *)
(* when a run succeeds after rate-limited ones, its parsed JSON is         *)
(* returned.                                                               *)
(***************************************************************************)
C16_GhRateLimitRetry ==
    prog \in GhProgs =>
        /\ \A i \in 1..Len(hist) : hist[i].attempt = i /\ hist[i].req = req
        /\ \A i \in 1..Len(hist) :
               hist[i].resp.kind = "ratelimit" =>
                   hist[i].slept = (IF i < 5 THEN {ResetWait(hist[i].resp)} ELSE {})
        /\ (AllRateLimited /\ callState = "running") => Len(hist) < 5 /\ attempt = Len(hist) + 1
        /\ (AllRateLimited /\ CallEnded) => Len(hist) = 5 /\ callState = "raised"
        /\ callState = "raised" => AllRateLimited
        /\ (LastRespOk /\ \A i \in 1..(Len(hist) - 1) : hist[i].resp.kind = "ratelimit") =>
               callState = "returned" /\ callData = GhBody(req) /\ Len(hist) <= 5

C16_Witness ==
    /\ prog \in GhProgs
    /\ callState = "raised"
    /\ Len(hist) = 5
    /\ AllRateLimited
    /\ hist[1].slept = {_SECONDARY_RATE_WAIT}
    /\ hist[4].slept = {32}
    /\ hist[5].slept = {}

(***************************************************************************)
(* C17: a gh command that fails with an error that is not a rate-limit     *)
(* signal is retried with backoff up to the maximum attempt count, and     *)
(* gh() raises a terminal error when the attempts are exhausted.           *)
(***************************************************************************)
C17_GhRetriesOtherErrors ==
    prog \in GhProgs =>
        \A i \in 1..Len(hist) :
            hist[i].resp.kind = "error" =>
                IF hist[i].attempt < _MAX_RETRIES_gh
                THEN /\ hist[i].slept # {}
                     /\ (i = Len(hist) => callState = "running" /\ attempt = hist[i].attempt + 1)
                ELSE callState = "raised"

(***************************************************************************)
(* C18: with --org omitted discover_repos returns every repository that    *)
(* has a PR matching the query, whatever its owner; with an org it returns *)
(* exactly the matching repositories of that org.                          *)
(***************************************************************************)
C18_OrgOmittedMeansAll ==
    (prog = "discover_repos" /\ pc = "returned" /\ LastRespOk) =>
        {ret[j] : j \in 1..Len(ret)} =
            {Item(i).repo : i \in {k \in 1..ghItems :
                org = {} \/ Item(k).repo.owner \in org}}

\* the last answer received in a run of an Atlassian script is 401, 403 or 410
FatalAnswered ==
    /\ script \in AtlScripts
    /\ hist # <<>>
    /\ hist[Len(hist)].resp.kind = "http"
    /\ hist[Len(hist)].resp.code \in {401, 403, 410}

(***************************************************************************)
(* C15: once a request of a run of fetch_sprint_totals or fetch_confluence *)
(* has been answered with 401, 403 or 410, no further HTTP request is      *)
(* issued in that run (neither a retry nor a new call, the discovery of    *)
(* resolve_sp_fields included), and main goes nowhere but to its failure.  *)
(***************************************************************************)
C15_FatalEndsRun ==
    [][FatalAnswered => (hist' = hist /\ calls' = calls /\ mainPc' \in {mainPc, "failed"})]_vars

\* the requests of the run are none but the gh api user of current_user()
OnlyCurrentUser ==
    /\ Len(calls) <= 1
    /\ \A i \in 1..Len(calls) : calls[i] = [cmd |-> "user"]
    /\ calls # <<>> => script \in GhScripts /\ ~authorGiven

(***************************************************************************)
(* C19 (amended): when the output file exists and --force is not passed,   *)
(* the script leaves the file unchanged and issues no API request, but for *)
(* the one gh api user call by which fetch_prs and fetch_reviewed_prs      *)
(* resolve the author before the cache check when --author is omitted;     *)
(* with --force the cache is not used, and a run that ends well has issued *)
(* requests and written the file anew.                                     *)
(***************************************************************************)
C19_CacheHitButAuthor ==
    /\ (script # "none" /\ existed /\ ~force) =>
           /\ output = "old"
           /\ OnlyCurrentUser
           /\ mainPc \in {"start", "author", "cache_hit", "exit1", "failed"}
    /\ (script # "none" /\ existed /\ force) =>
           /\ mainPc # "cache_hit"
           /\ (mainPc = "done" => output = "new" /\ calls # <<>>)
           /\ (mainPc # "done" => output = "old")

C19_Witness ==
    /\ script = "fetch_prs"
    /\ ~authorGiven
    /\ existed /\ ~force
    /\ mainPc = "cache_hit"
    /\ Len(calls) = 1
    /\ Len(hist) = 3
    /\ output = "old"

(***************************************************************************)
(* C19 as stated: when the output file exists and --force is not passed,   *)
(* the script issues no API request at all and leaves the file unchanged,  *)
(* whatever the other flags (--author omitted included).                   *)
(***************************************************************************)
C19_CacheHitNoRequest ==
    (script # "none" /\ existed /\ ~force) => (calls = <<>> /\ output = "old")

\* a paginated fetch runs
Paginated == prog \in {"fetch_pages", "fetch_sprint_total"}

(***************************************************************************)
(* C21: the retry state belongs to one request: every page request of a    *)
(* paginated fetch begins with attempt 1 and an empty history, whatever    *)
(* the attempts of the pages before it; the attempt counter of a running   *)
(* call is one more than the requests the call has issued, and a call is   *)
(* ended for exhaustion by a non-rate-limit error only at its own attempt  *)
(* _MAX_RETRIES, so m pages may take m * _MAX_RETRIES requests.            *)
(***************************************************************************)
C21_RetryStatePerRequest ==
    /\ [](Paginated =>
            /\ (callState = "running" =>
                    attempt = Len(hist) + 1 /\ attempt <= MaxRetries(fn))
            /\ ((callState = "raised" /\ Generic(hist[Len(hist)].resp)) =>
                    Len(hist) = MaxRetries(fn)))
    /\ [][(Paginated /\ calls' # calls) =>
            (attempt' = 1 /\ hist' = <<>> /\ callState' = "running")]_vars

C21_Witness ==
    /\ prog = "fetch_pages"
    /\ Len(calls) = 3
    /\ Len(pages) = 2 * _PAGE_LIMIT
    /\ Len(hist) = 5
    /\ \A i \in 1..4 : Generic(hist[i].resp)
    /\ LastRespOk
    /\ pc = "returned"

\* the waits of the backoff schedule, by attempt: 5 * 2^1, ..., 5 * 2^4
BackoffSchedule == <<10, 20, 40, 80>>

\* an error answered by backoff: a network error or an HTTP error that is
\* neither fatal nor a rate limit
BackedOff(r) ==
    \/ r.kind = "url"
    \/ r.kind = "http" /\ r.code = 500
    \/ r.kind = "http" /\ r.code = 410 /\ fn = "confluence_get"

(***************************************************************************)
(* C22: after a non-rate-limit HTTP error or a network error on attempt a  *)
(* that is not the last, confluence_get / jira_get / jira_post wait        *)
(* 5 * 2^a seconds (10, 20, 40, 80) before the next attempt, by the same   *)
(* formula for both kinds of error; a 429 among the earlier attempts       *)
(* changes the wait only by the attempts it has used.                      *)
(***************************************************************************)
C22_BackoffSchedule ==
    prog \in Progs =>
        \A i \in 1..Len(hist) :
            (BackedOff(hist[i].resp) /\ (i < Len(hist) \/ callState = "running")) =>
                /\ hist[i].attempt = i
                /\ i <= 4
                /\ hist[i].slept = {BackoffSchedule[i]}

C22_Witness ==
    /\ prog \in Progs
    /\ Len(hist) = 4
    /\ hist[1].resp.code = 500 /\ hist[1].slept = {10}
    /\ hist[2].resp.code = 429
    /\ hist[3].resp.kind = "url" /\ hist[3].slept = {40}
    /\ hist[4].resp.code = 500 /\ hist[4].slept = {80}
    /\ callState = "running"

(***************************************************************************)
(* dedup_csv_headers.py: the header row of a CSV is read, each repeated    *)
(* name gets the suffix _2, _3, ..., and the rows that follow are copied.  *)
(* A row is the sequence of its cells as csv.reader yields them.           *)
(***************************************************************************)
MaxCols == 3
MaxDataRows == 2

\* the column names an input may use; "a_2" is the name the script itself
\* gives to a second "a"
HeaderNames == {"a", "b", "a_2"}

HeaderRows == UNION {[1..n -> HeaderNames] : n \in 0..MaxCols}

DataRows == {<<"1">>, <<"2", "3">>}

CsvInputs ==
    {<<>>} \cup
    {<<h>> \o d : h \in HeaderRows,
                  d \in UNION {[1..n -> DataRows] : n \in 0..MaxDataRows}}

\* f"{h}_{seen[h]}"
Renamed(h, k) == h \o "_" \o ToString(k)

InitDedup ==
    /\ prog = "dedup_csv_headers"
    /\ pc = "start"
    /\ csv_in \in CsvInputs
    /\ headers = <<>>
    /\ seen = EmptyDict
    /\ deduped = <<>>
    /\ written = <<>>
    /\ calls = <<>>
    /\ req = EmptyDict
    /\ attempt = 1
    /\ hist = <<>>
    /\ callState = "idle"
    /\ callData = EmptyDict
    /\ callError = EmptyDict
    /\ AtlIdle
    /\ GhIdle
    /\ MainIdle

notDedupVars ==
    <<srvVars, pagesVars, sprintVars, calls, callVars, ghVars, mainVars>>

\* headers = next(reader): StopIteration when the input has no row at all
DedupReadHeaders ==
    /\ prog = "dedup_csv_headers"
    /\ pc = "start"
    /\ IF csv_in = <<>>
         THEN /\ pc' = "raised"
              /\ UNCHANGED headers
         ELSE /\ pc' = "headers"
              /\ headers' = Head(csv_in)
    /\ UNCHANGED <<prog, csv_in, seen, deduped, written, notDedupVars>>

\* one pass of "for h in headers"
DedupHeader ==
    /\ prog = "dedup_csv_headers"
    /\ pc = "headers"
    /\ Len(deduped) < Len(headers)
    /\ LET h == headers[Len(deduped) + 1] IN
         IF h \in DOMAIN seen
           THEN /\ seen' = [seen EXCEPT ![h] = @ + 1]
                /\ deduped' = Append(deduped, Renamed(h, seen[h] + 1))
           ELSE /\ seen' = (h :> 1) @@ seen
                /\ deduped' = Append(deduped, h)
    /\ UNCHANGED <<prog, pc, csv_in, headers, written, notDedupVars>>

\* writer.writerow(deduped)
DedupWriteHeader ==
    /\ prog = "dedup_csv_headers"
    /\ pc = "headers"
    /\ Len(deduped) = Len(headers)
    /\ written' = Append(written, deduped)
    /\ pc' = "rows"
    /\ UNCHANGED <<prog, csv_in, headers, seen, deduped, notDedupVars>>

\* one pass of "for row in reader: writer.writerow(row)"
DedupRow ==
    /\ prog = "dedup_csv_headers"
    /\ pc = "rows"
    /\ Len(written) < Len(csv_in)
    /\ written' = Append(written, csv_in[Len(written) + 1])
    /\ UNCHANGED <<prog, pc, csv_in, headers, seen, deduped, notDedupVars>>

\* the reader is exhausted: the script ends
DedupEnd ==
    /\ prog = "dedup_csv_headers"
    /\ pc = "rows"
    /\ Len(written) = Len(csv_in)
    /\ pc' = "done"
    /\ UNCHANGED <<prog, dedupVars, notDedupVars>>

NextDedup ==
    \/ DedupReadHeaders
    \/ DedupHeader
    \/ DedupWriteHeader
    \/ DedupRow
    \/ DedupEnd

SpecDedup == InitDedup /\ [][NextDedup]_vars

\* the number of positions j <= i of row with the name of position i
Occurrence(row, i) == Cardinality({j \in 1..i : row[j] = row[i]})

HeaderWritten == prog = "dedup_csv_headers" /\ pc \in {"rows", "done"}

(***************************************************************************)
(* C23: for every input header row, the header row dedup_csv_headers       *)
(* writes has the same length, keeps the first occurrence of each name,    *)
(* renames the k-th occurrence (k >= 2) of a name h to h_k, and holds no   *)
(* two equal column names; the data rows are written unchanged.            *)
(***************************************************************************)
C23_DedupedHeaders ==
    HeaderWritten =>
        /\ Len(written[1]) = Len(csv_in[1])
        /\ \A i \in 1..Len(csv_in[1]) :
               written[1][i] = IF Occurrence(csv_in[1], i) = 1
                                 THEN csv_in[1][i]
                                 ELSE Renamed(csv_in[1][i], Occurrence(csv_in[1], i))
        /\ \A i, j \in 1..Len(written[1]) : written[1][i] = written[1][j] => i = j
        /\ \A n \in 2..Len(written) : written[n] = csv_in[n]
        /\ pc = "done" => Len(written) = Len(csv_in)

\* the response jira_post returned last has no issues or no next token
LastPageReturned ==
    \/ Get(callData, "issues", <<>>) = <<>>
    \/ "nextPageToken" \notin DOMAIN callData

(***************************************************************************)
(* C24: in fetch_sprint_total the first page request carries no            *)
(* continuation token; every later request carries exactly the token of    *)
(* the response returned just before it; the fetch stops after the first   *)
(* response without issues or without next token, and issues no request    *)
(* after it.                                                               *)
(***************************************************************************)
C24_TokenProtocol ==
    [][prog = "fetch_sprint_total" =>
        /\ (calls' # calls) =>
               /\ Len(calls') = Len(calls) + 1
               /\ IF calls = <<>>
                    THEN calls'[1].token = {}
                    ELSE /\ callState = "returned"
                         /\ ~LastPageReturned
                         /\ calls'[Len(calls')].token = {callData.nextPageToken}
        /\ (pc = "calling" /\ callState = "returned") =>
               /\ pc' = IF LastPageReturned THEN "returned" ELSE "loop"
               /\ calls' = calls
        /\ (pc = "returned") => (pc' = "returned" /\ calls' = calls)]_vars

C24_Witness ==
    /\ prog = "fetch_sprint_total"
    /\ pc = "returned"
    /\ Len(calls) = 3
    /\ calls[1].token = {} /\ calls[2].token = {2} /\ calls[3].token = {3}
    /\ hist[Len(hist)].resp.kind = "ok"
    /\ callData.issues # <<>>
    /\ "nextPageToken" \notin DOMAIN callData

GhPaginated == prog \in {"discover_repos", "search_pr_numbers"}

\* the items of the page gh returned last
ItemsReturned == IF callData = <<>> THEN <<>> ELSE callData.items

(***************************************************************************)
(* C25: discover_repos and search_pr_numbers request page = 1, 2, 3, ...   *)
(* in order with per_page = 100; the loop stops after the first page that  *)
(* is empty or has fewer than 100 items; for pages of sizes                *)
(* [100, ..., 100, k] with k < 100, exactly (number of full pages + 1)     *)
(* requests are issued and search_pr_numbers returns one (repo, number)    *)
(* pair per item, in server order.                                         *)
(***************************************************************************)
C25_GhPageNumbers ==
    /\ [](GhPaginated =>
            /\ PER_PAGE = 100
            /\ \A k \in 1..Len(calls) : calls[k] = [cmd |-> "search", page |-> k]
            /\ (pc = "returned" /\ LastRespOk) =>
                   /\ Len(calls) = (ghItems \div 100) + 1
                   /\ prog = "search_pr_numbers" =>
                          ret = [j \in 1..ghItems |-> <<Item(j).repo, Item(j).number>>])
    /\ [][GhPaginated =>
            /\ (pc = "calling" /\ callState = "returned") =>
                   /\ pc' = IF Len(ItemsReturned) < 100 THEN "returned" ELSE "loop"
                   /\ calls' = calls
            /\ (pc = "returned") => (pc' = "returned" /\ calls' = calls)]_vars

C25_Witness ==
    /\ prog = "search_pr_numbers"
    /\ pc = "returned"
    /\ ghItems = 101
    /\ Len(calls) = 2
    /\ calls[2].page = 2
    /\ Len(ret) = 101
    /\ ret[101] = <<Item(101).repo, 101>>
    /\ LastRespOk

IsPrefix(a, b) == Len(a) <= Len(b) /\ SubSeq(b, 1, Len(a)) = a

NoDuplicates(c) == \A i, j \in 1..Len(c) : c[i] = c[j] => i = j

\* resolve_sp_fields has been entered in this run
Resolving ==
    /\ script = "fetch_sprint_totals"
    /\ mainPc \in {"resolve_registry", "resolve_probe", "sprints", "done", "failed"}

C27_OffsetBookkeeping ==
    /\ [](prog = "fetch_pages" =>
            /\ \A k \in 1..(Len(calls) - 1) : calls[k].start <= calls[k + 1].start
            /\ pc = "calling" =>
                   /\ req = calls[Len(calls)]
                   /\ req.start = Len(pages)
                   /\ \A i \in 1..Len(hist) : hist[i].req.start = req.start)
    /\ [][prog = "fetch_pages" =>
            /\ (calls' # calls) =>
                   /\ calls' = Append(calls, req')
                   /\ req'.start = Len(pages)
                   /\ pages' = pages
            /\ start' >= start
            /\ (pc = "calling" /\ pc' = "calling") => (req' = req /\ start' = start)]_vars

C27_Witness ==
    /\ prog = "fetch_pages"
    /\ limit = 2
    /\ pc = "calling"
    /\ callState = "running"
    /\ Len(calls) = 3
    /\ calls[2].start = 2
    /\ calls[3].start = 4
    /\ Len(pages) = 4
    /\ Len(hist) = 2
    /\ hist[1].req.start = 4 /\ hist[2].req.start = 4

\* the server's last answer was a page that ends the pagination
ShortPageAnswered ==
    /\ LastRespOk
    /\ CASE prog = "fetch_pages" -> Len(callData.results) < _PAGE_LIMIT
         [] prog = "fetch_sprint_total" ->
                callData.issues = <<>> \/ "nextPageToken" \notin DOMAIN callData
         [] OTHER -> TRUE

(***************************************************************************)
(* C28: against a server holding N records that answers every request,    *)
(* fetch_pages returns after exactly floor(N / P) + 1 page requests, the   *)
(* last of which gets an empty page when N is a multiple of P (N = 0       *)
(* included); and the loop has no other exit: fetch_pages returns only if  *)
(* the server answered a page shorter than P, fetch_sprint_total only if   *)
(* the server answered an empty page or omitted the token.                 *)
(***************************************************************************)
C28_PaginationTermination ==
    (Paginated /\ pc = "returned") =>
        /\ ShortPageAnswered
        /\ prog = "fetch_pages" =>
               /\ Len(calls) = (srvN \div _PAGE_LIMIT) + 1
               /\ (srvN % _PAGE_LIMIT = 0 => callData.results = <<>>)

\* the fetches whose results a script writes
LogicalFetches ==
    {"fetch_pages", "fetch_sprint_total", "discover_repos", "search_pr_numbers",
     "fetch_prs_for_numbers"}

\* the output file as the run found it
OutputAtStart == IF existed THEN "old" ELSE "absent"

\* the last logical fetch of the run has returned
AllFetched ==
    /\ pc = "returned"
    /\ CASE script = "fetch_confluence" -> mainPc = "contributed" /\ prog = "fetch_pages"
         [] script = "fetch_sprint_totals" ->
                mainPc = "sprints" /\ prog = "fetch_sprint_total" /\ input = {main_i}
         [] OTHER -> mainPc = "details" /\ prog = "fetch_prs_for_numbers"

(***************************************************************************)
(* C29: a fetch script writes its output file only after every logical     *)
(* fetch of the run has returned (created and contributed page lists in    *)
(* fetch_confluence, every sprint in fetch_sprint_totals, the PR fetches   *)
(* in fetch_prs); if a fetch raises, no output file is created or          *)
(* modified, so an existing file never holds the result of a run that      *)
(* ended in an error.                                                      *)
(***************************************************************************)
C29_AllOrNothingOutput ==
    /\ [](script # "none" =>
            /\ output \in {OutputAtStart, "new"}
            /\ output = "new" => mainPc = "done"
            /\ mainPc = "failed" => output = OutputAtStart
            /\ (pc = "raised" /\ prog \in LogicalFetches) => output = OutputAtStart)
    /\ [][script # "none" =>
            /\ (output' # output) => (AllFetched /\ output' = "new" /\ mainPc' = "done")
            /\ (pc = "raised" /\ prog \in LogicalFetches) =>
                   (output' = output /\ pc' = "raised" /\ calls' = calls)
            /\ mainPc \in {"done", "failed"} => UNCHANGED <<output, mainPc, calls>>]_vars

\* fetch_confluence --force over an existing file: created has returned,
\* contributed raised on its first request, the file is the old one
C29_Witness ==
    /\ script = "fetch_confluence"
    /\ existed /\ force
    /\ mainPc = "failed"
    /\ prog = "fetch_pages"
    /\ pc = "raised"
    /\ srvN = 1
    /\ Len(calls) = 2
    /\ Len(pages) = 0
    /\ output = "old"

\* the number of attempts of the current call after which the function slept
RECURSIVE Sleeps(_)
Sleeps(n) == IF n = 0 THEN 0 ELSE Sleeps(n - 1) + (IF hist[n].slept # {} THEN 1 ELSE 0)

(***************************************************************************)
(* C30: in confluence_get, jira_get, jira_post and gh(), every sleep       *)
(* inside a request call is followed by another attempt of that request;   *)
(* the call never sleeps after its final attempt, so that for every        *)
(* response sequence the number of sleeps is the number of attempts - 1.   *)
(***************************************************************************)
C30_NoWastedWait ==
    (prog \in Progs \cup GhProgs /\ pc = "calling") =>
        /\ \A i \in 1..Len(hist) :
               hist[i].slept # {} => (i < Len(hist) \/ callState = "running")
        /\ callState \in {"returned", "raised"} => Sleeps(Len(hist)) = Len(hist) - 1

=============================================================================
